---- MODULE Spec2Model ----
(***************************************************************************)
(* Model of pygeoapi/provider/ckan.py: the CKANServiceProvider adapter.    *)
(*                                                                         *)
(* One adapter instance talks to one remote datastore.  Each remote call   *)
(* is one step of the model: the request is sent by the step that builds   *)
(* it and the response (status, body, rows, reported limit and total) is   *)
(* the input of the step that handles it.                                  *)
(*                                                                         *)
(* Values: a row is a function from field names to values; the id of a row *)
(* is a number, every other value is a string.  float() results are kept   *)
(* in tenths (float("1.5") is 15).                                         *)
(***************************************************************************)
EXTENDS Integers, Sequences, FiniteSets, TLC

\* ---------------------------------------------------------------- bounds
MaxOffset == 1      \* caller offsets 0..MaxOffset
MaxLimit == 3       \* caller limits and reported limits 0..MaxLimit
MaxTotal == 3       \* totals reported by the remote 0..MaxTotal
MaxPage == 2        \* rows of one remote page 0..MaxPage
MaxCalls == 6       \* the calls counter saturates here
MaxDisc == 3        \* the discovery-request counter saturates here

\* -------------------------------------------------- program constants
codes_bad == 400            \* requests.codes.bad
DiscoveryLimit == 1         \* 'limit': 1 of the discovery request

\* ------------------------------------------ configuration (provider_def)
id_field == "id"
x_field == "x"
y_field == "y"
resource_id == "res"

Min(a, b) == IF a < b THEN a ELSE b

\* f without the key k (dict.pop's effect on the dict)
Without(f, k) == [j \in (DOMAIN f) \ {k} |-> f[j]]

\* ------------------------------------------------------------ the remote
\* 400 is requests.codes.bad; 500 stands for every other error status
Statuses == {200, 400, 500}
RowKinds == {"good", "badcoord", "noid"}

\* One row of the dataset: its id is its position.
Row(i, kind) ==
    LET full == [k \in {"id", "x", "y", "name"} |->
                    IF k = "id" THEN i
                    ELSE IF k = "x" THEN (IF kind = "badcoord" THEN "abc" ELSE "1.5")
                    ELSE IF k = "y" THEN "2.5"
                    ELSE "foo"]
    IN IF kind = "noid" THEN Without(full, "id") ELSE full

\* The page a call at offset off gets: n rows starting after off.
Page(off, n, kind) == [i \in 1..n |-> Row(off + i, kind)]

\* What a well-behaved remote with per-call cap C and D rows returns at
\* offset off for a requested limit lim.
CappedPageSize(C, D, off, lim) ==
    LET avail == IF D > off THEN D - off ELSE 0
    IN Min(Min(C, lim), avail)

\* The limit such a remote reports in its answer: the requested one, or the
\* one it applied.
ReportedLimits(C, lim) == {lim, Min(C, lim)}

\* ------------------------------------------------------------- exceptions
NoError == "none"
ErrorKinds ==
    {"ProviderConnectionError", "ProviderQueryError", "JSONDecodeError",
     "KeyError", "ValueError", "IndexError"}
NoResult == [type |-> "None"]

\* ---------------------------------------------------------- make_feature
IsNumeric(s) == s \in {"1.5", "2.5"}
Float(s) == CASE s = "1.5" -> 15 [] s = "2.5" -> 25 [] OTHER -> 0

\* make_feature(f, skip): [err, feature]
make_feature(f, skip) ==
    IF id_field \notin DOMAIN f
    THEN [err |-> "KeyError", feature |-> NoResult]
    ELSE
      LET fid == f[id_field]
          f1 == Without(f, id_field)
      IN IF ~skip
         THEN IF x_field \notin DOMAIN f1 \/ y_field \notin DOMAIN f1
              THEN [err |-> "KeyError", feature |-> NoResult]
              ELSE IF ~IsNumeric(f1[x_field]) \/ ~IsNumeric(f1[y_field])
              THEN [err |-> "ValueError", feature |-> NoResult]
              ELSE [err |-> NoError,
                    feature |-> [type |-> "Feature", id |-> fid,
                                 geometry |-> [type |-> "Point",
                                               coordinates |-> <<Float(f1[x_field]),
                                                                 Float(f1[y_field])>>],
                                 properties |-> Without(Without(f1, x_field), y_field)]]
         ELSE [err |-> NoError,
               feature |-> [type |-> "Feature", id |-> fid,
                            geometry |-> NoResult,
                            properties |-> f1]]

\* [self.make_feature(f, skip) for f in records]: [err, features]
TranslatePage(records, skip) ==
    LET made == [i \in 1..Len(records) |-> make_feature(records[i], skip)]
        bad == {i \in 1..Len(records) : made[i].err # NoError}
    IN IF bad # {}
       THEN [err |-> made[CHOOSE i \in bad : \A j \in bad : i <= j].err,
             features |-> <<>>]
       ELSE [err |-> NoError,
             features |-> [i \in 1..Len(records) |-> made[i].feature]]

\* ------------------------------------------------------- clause builders
\* _make_where(properties): the dict built from the pairs (a repeated key
\* keeps its last value); json.dumps of it is kept as the mapping itself.
_make_where(props) ==
    LET keys == {props[i][1] : i \in 1..Len(props)}
        last(k) == CHOOSE i \in 1..Len(props) :
                      /\ props[i][1] = k
                      /\ \A j \in 1..Len(props) : props[j][1] = k => j <= i
    IN [k \in keys |-> props[last(k)][2]]

\* the direction table of _make_orderby
DirectionOf(o) == IF o = "+" THEN "asc" ELSE "desc"

\* an order clause builder that falls back to a direction for an unknown
\* symbol instead of raising
_make_orderby_default(sortby) ==
    [err |-> NoError,
     clause |-> [i \in 1..Len(sortby) |->
                   <<sortby[i].property, DirectionOf(sortby[i].order)>>]]

\* _make_orderby(sortby): [err, clause]; the clause is the sequence of
\* <<property, direction>> tokens that ','.join glues together.
_make_orderby(sortby) ==
    IF \E i \in 1..Len(sortby) : sortby[i].order \notin {"+", "-"}
    THEN [err |-> "KeyError", clause |-> <<>>]
    ELSE [err |-> NoError,
          clause |-> [i \in 1..Len(sortby) |->
                        <<sortby[i].property, DirectionOf(sortby[i].order)>>]]

\* ------------------------------------------------------------------ state
VARIABLES
    pc,             \* "new", "idle", "first", "loop" or "dead"
    fields,         \* self.fields: field name -> descriptor
    numFeatures,    \* self.numFeatures (-1: not set)
    properties,     \* self.properties: the configured projection
    discoveryCalls, \* discovery requests sent so far (saturating)
    openSessions,   \* who created the sessions that the running or last
                    \* operation opened and has not closed
    op,             \* the running or last operation
    args,           \* the arguments of that operation
    params,         \* request parameters of the current data request
    limit,          \* _load's local limit
    v,              \* _load's accumulated features
    step,           \* _load's step
    hits_,          \* _load's hits_
    lastPage,       \* rows of the latest page (-1: none yet)
    calls,          \* data requests sent by this invocation (saturating)
    outcome,        \* [kind, cause] of the last finished operation
    result,         \* the value it returned
    errStatusSeen,  \* a data call of this invocation answered with status >= 400
    sawRows,        \* a data call of this invocation returned at least one row
    firstTotal,     \* the total in the answer to its first data call (-1: none)
    failures,       \* which data calls of this invocation got a failing answer:
                    \* "first", "later"
    capsOK          \* caps C for which every answer to this invocation is the
                    \* one of a well-behaved remote with cap C and numFeatures
                    \* rows

adapter == <<fields, numFeatures, properties, discoveryCalls>>
locals == <<params, limit, v, step, hits_, lastPage, calls>>
history == <<errStatusSeen, sawRows, firstTotal, failures, capsOK>>
vars == <<pc, fields, numFeatures, properties, discoveryCalls, openSessions,
          op, args, params, limit, v, step, hits_, lastPage, calls,
          outcome, result, errStatusSeen, sawRows, firstTotal, failures, capsOK>>

Caps == 1..MaxPage
NoIdentifier == -1      \* identifier=None
DefaultLimit == 10      \* _load's limit=10
NoArgs == [offset |-> 0, limit |-> DefaultLimit, resulttype |-> "results",
           identifier |-> NoIdentifier, bbox |-> << >>, properties |-> << >>,
           sortby |-> << >>, select_properties |-> {}, skip_geometry |-> FALSE]
NoParams == [resource_id |-> resource_id]
NoOutcome == [kind |-> "none", cause |-> NoError]

\* provider_def's optional 'properties'
ConfiguredProperties == {{}, {"name"}}

\* the state BaseProvider.__init__ and line 57 leave, before get_fields()
Init ==
    /\ pc = "new"
    /\ fields = << >>
    /\ numFeatures = -1
    /\ properties \in ConfiguredProperties
    /\ discoveryCalls = 0
    /\ openSessions = {}
    /\ op = "none"
    /\ args = NoArgs
    /\ params = NoParams
    /\ limit = 0
    /\ v = << >>
    /\ step = 0
    /\ hits_ = 0
    /\ lastPage = -1
    /\ calls = 0
    /\ outcome = NoOutcome
    /\ result = NoResult
    /\ errStatusSeen = FALSE
    /\ sawRows = FALSE
    /\ firstTotal = -1
    /\ failures = {}
    /\ capsOK = Caps

\* --------------------------------------------------------------- get_fields
FieldLists ==
    { << >>,
      << [id |-> "id", type |-> "int"], [id |-> "x", type |-> "text"],
         [id |-> "y", type |-> "text"], [id |-> "name", type |-> "text"] >> }

\* answers to the discovery request: a resource without columns has no rows
DiscoveryResponses ==
    {r \in [body : {"json"}, fields : FieldLists, total : 0..MaxTotal] :
        r.fields = << >> => r.total = 0}
      \cup [body : {"garbage", "nostruct"}, fields : {<< >>}, total : {0}]

\* 'if not self.fields': the cache counts as empty while the dict is empty
CacheEmpty(fs) == DOMAIN fs = {}

\* {_.pop('id'): _ for _ in resp['result']['fields']}
FieldMapping(fieldlist) ==
    [n \in {fieldlist[i].id : i \in 1..Len(fieldlist)} |->
        LET i == CHOOSE j \in 1..Len(fieldlist) :
                    /\ fieldlist[j].id = n
                    /\ \A k \in 1..Len(fieldlist) : fieldlist[k].id = n => k <= j
        IN [type |-> fieldlist[i].type]]

\* self.properties after lines 78-82
DiscoveryProjection(props) ==
    IF props # {} THEN props \cup {id_field, x_field, y_field} ELSE props

\* the discovery request of lines 72-82, for the projection props
DiscoveryParams(props) ==
    LET base == [resource_id |-> resource_id, limit |-> DiscoveryLimit,
                 include_total |-> "true"]
    IN IF props # {} THEN base @@ [fields |-> props] ELSE base

\* get_fields() with the response resp to its request (if it sends one);
\* failed is the pc the adapter is left in when it raises.
get_fields(resp, failed) ==
    /\ op' = "get_fields"
    /\ args' = NoArgs
    /\ limit' = 0 /\ v' = << >> /\ step' = 0 /\ hits_' = 0
    /\ lastPage' = -1 /\ calls' = 0
    /\ errStatusSeen' = FALSE /\ sawRows' = FALSE /\ firstTotal' = -1
    /\ failures' = {} /\ capsOK' = Caps
    /\ IF ~CacheEmpty(fields)
       THEN /\ UNCHANGED adapter
            /\ openSessions' = {}
            /\ params' = NoParams
            /\ pc' = "idle"
            /\ outcome' = [kind |-> "fields", cause |-> NoError]
            /\ result' = [type |-> "Fields", fields |-> fields]
       ELSE /\ discoveryCalls' = Min(discoveryCalls + 1, MaxDisc)
            /\ openSessions' = {"get_fields"}
            /\ properties' = DiscoveryProjection(properties)
            /\ params' = DiscoveryParams(DiscoveryProjection(properties))
            /\ CASE resp.body = "garbage" ->
                      /\ UNCHANGED <<fields, numFeatures>>
                      /\ pc' = failed
                      /\ outcome' = [kind |-> "ProviderQueryError",
                                     cause |-> "JSONDecodeError"]
                      /\ result' = NoResult
                 [] resp.body = "nostruct" ->
                      /\ UNCHANGED <<fields, numFeatures>>
                      /\ pc' = failed
                      /\ outcome' = [kind |-> "KeyError", cause |-> "KeyError"]
                      /\ result' = NoResult
                 [] OTHER ->
                      /\ fields' = FieldMapping(resp.fields)
                      /\ numFeatures' = resp.total
                      /\ pc' = "idle"
                      /\ outcome' = [kind |-> "fields", cause |-> NoError]
                      /\ result' = [type |-> "Fields",
                                    fields |-> FieldMapping(resp.fields)]

\* __init__: the constructor's get_fields() call
Construct ==
    /\ pc = "new"
    /\ \E resp \in DiscoveryResponses : get_fields(resp, "dead")

\* a later get_fields() call on the constructed adapter
GetFieldsCall ==
    /\ pc = "idle"
    /\ \E resp \in DiscoveryResponses : get_fields(resp, "idle")

\* -------------------------------------------------------------------- _load
Truthy(identifier) == identifier \notin {NoIdentifier, 0}

\* params after lines 162-186 (without the sort clause), for the arguments a
\* and the adapter's projection props
BaseParams(a, props) ==
    LET base == [offset |-> a.offset, limit |-> a.limit,
                 resource_id |-> resource_id]
        withFields == IF props # {} \/ a.select_properties # {}
                      THEN base @@ [fields |-> props \cup a.select_properties]
                      ELSE base
    IN IF Truthy(a.identifier)
       THEN withFields @@ [filters |-> _make_where(<< <<id_field, a.identifier>> >>)]
       ELSE LET withFilters == IF a.properties # << >> \/ a.bbox # << >>
                               THEN withFields @@ [filters |-> _make_where(a.properties)]
                               ELSE withFields
            IN IF a.resulttype = "hits"
               THEN withFilters @@ [include_total |-> "true"]
               ELSE withFilters

\* does line 186 run: no identifier and a non-empty sortby
SortRequested(a) == ~Truthy(a.identifier) /\ a.sortby # << >>

\* the hits branch reporting the cached total instead of the answer's
HitsCollection_cached(total) ==
    [type |-> "FeatureCollection", features |-> << >>, numberMatched |-> numFeatures]

\* fc of the hits branch, line 206
HitsCollection(total) ==
    [type |-> "FeatureCollection", features |-> << >>, numberMatched |-> total]

\* a results collection that reports the cached total as numberReturned
ResultsCollection_total(features) ==
    [type |-> "FeatureCollection", features |-> features,
     numberReturned |-> numFeatures]

\* fc of the results branch, lines 237-238
ResultsCollection(features) ==
    [type |-> "FeatureCollection", features |-> features,
     numberReturned |-> Len(features)]

\* a pop that yields None on an empty list instead of raising
PopFeature_silent(features) ==
    IF Len(features) = 0
    THEN [err |-> NoError, feature |-> NoResult]
    ELSE [err |-> NoError, feature |-> features[Len(features)]]

\* fc.get('features').pop() of get, line 134: [err, feature]
PopFeature(features) ==
    IF Len(features) = 0
    THEN [err |-> "IndexError", feature |-> NoResult]
    ELSE [err |-> NoError, feature |-> features[Len(features)]]

\* the invocation's position and locals, as one record
Cur ==
    [pc |-> pc, params |-> params, limit |-> limit, v |-> v, step |-> step,
     hits_ |-> hits_, lastPage |-> lastPage, calls |-> calls,
     outcome |-> outcome, result |-> result, open |-> TRUE]

\* _load is left: its request parameters, features and cursor step are
\* gone (hits_, the last page size and the call count stay on record)
Left(st) ==
    [st EXCEPT !.pc = "idle", !.params = NoParams, !.limit = 0, !.v = << >>,
               !.step = 0]

\* an exception leaves _load (and get): nothing after the raise runs
Raised(st, kind) ==
    [Left(st) EXCEPT !.hits_ = 0, !.lastPage = -1,
                     !.outcome = [kind |-> kind, cause |-> kind],
                     !.result = NoResult]

\* lines 240-243, then the caller: query returns fc, get pops its last feature
Returned(st, o, fc) ==
    LET closed == [Left(st) EXCEPT !.open = FALSE]
    IN IF o = "get"
       THEN LET popped == PopFeature(fc.features)
            IN IF popped.err # NoError
               THEN [closed EXCEPT !.outcome = [kind |-> popped.err, cause |-> popped.err],
                                   !.result = NoResult]
               ELSE [closed EXCEPT !.outcome = [kind |-> "Feature", cause |-> NoError],
                                   !.result = popped.feature]
       ELSE [closed EXCEPT !.outcome = [kind |-> "FeatureCollection", cause |-> NoError],
                           !.result = fc]

\* a loop whose cursor advances by the size of the latest page
WhileTest_lastPage(st, o) ==
    IF Len(st.v) < st.hits_
    THEN [st EXCEPT !.pc = "loop",
                    !.params = [@ EXCEPT !.offset = @ + st.lastPage],
                    !.calls = Min(@ + 1, MaxCalls)]
    ELSE Returned(st, o, ResultsCollection(st.v))

\* a loop whose cursor never advances
WhileTest_noadvance(st, o) ==
    IF Len(st.v) < st.hits_
    THEN [st EXCEPT !.pc = "loop", !.calls = Min(@ + 1, MaxCalls)]
    ELSE Returned(st, o, ResultsCollection(st.v))

\* the while test of line 217: either the next request (lines 219-220) is
\* sent or lines 237-243 run
WhileTest(st, o) ==
    IF Len(st.v) < st.hits_
    THEN [st EXCEPT !.pc = "loop",
                    !.params = [@ EXCEPT !.offset = @ + st.step],
                    !.calls = Min(@ + 1, MaxCalls)]
    ELSE Returned(st, o, ResultsCollection(st.v))

\* the status test of lines 195 and 223
BadStatus(status) == status = codes_bad

\* lines 193-215 for the response resp to the first request
FirstResponseOf(st, o, a, total_, resp) ==
    IF BadStatus(resp.status) THEN Raised(st, "ProviderConnectionError")
    ELSE IF resp.body = "garbage" THEN Raised(st, "JSONDecodeError")
    ELSE IF resp.body = "nostruct" THEN Raised(st, "KeyError")
    ELSE
      LET st1 == [st EXCEPT !.limit = resp.limit]
      IN IF a.resulttype = "hits"
         THEN Returned(st1, o, HitsCollection(resp.total))
         ELSE LET t == TranslatePage(Page(st.params.offset, resp.n, resp.kind),
                                     a.skip_geometry)
              IN IF t.err # NoError THEN Raised(st1, t.err)
                 ELSE WhileTest([st1 EXCEPT !.v = t.features,
                                            !.lastPage = resp.n,
                                            !.step = Len(t.features),
                                            !.hits_ = Min(resp.limit, total_)], o)

\* a loop without the break on an empty page
PageEndsLoop_never(page) == Len(page) < 0

\* does the page just translated end the loop (lines 232-233)
PageEndsLoop(page) == Len(page) = 0

\* lines 220-235 for the response resp to a request of the loop
LoopResponseOf(st, o, a, resp) ==
    IF BadStatus(resp.status) THEN Raised(st, "ProviderConnectionError")
    ELSE IF resp.body = "garbage" THEN Raised(st, "JSONDecodeError")
    ELSE IF resp.body = "nostruct" THEN Raised(st, "KeyError")
    ELSE
      LET t == TranslatePage(Page(st.params.offset, resp.n, resp.kind),
                             a.skip_geometry)
          st1 == [st EXCEPT !.lastPage = resp.n]
      IN IF t.err # NoError THEN Raised(st, t.err)
         ELSE IF PageEndsLoop(t.features)
         THEN Returned(st1, o, ResultsCollection(st1.v))
         ELSE WhileTest([st1 EXCEPT !.v = @ \o t.features], o)

\* ----------------------------------------------------- callers' arguments
\* query calls that vary paging and result mode
PagingArgs ==
    {[NoArgs EXCEPT !.offset = o, !.limit = l, !.resulttype = r] :
        o \in 0..MaxOffset, l \in 0..MaxLimit, r \in {"results", "hits"}}

\* query calls with skip_geometry=True
SkipArgs ==
    {[NoArgs EXCEPT !.limit = l, !.skip_geometry = TRUE] : l \in 1..Min(2, MaxLimit)}

SortSpecs ==
    { << >>,
      << [property |-> "name", order |-> "+"], [property |-> "x", order |-> "-"] >>,
      << [property |-> "name", order |-> "?"] >> }
FilterSpecs == { << >>, << <<"name", "foo">>, <<"name", "bar">> >> }
BoxSpecs == { << >>, <<0, 0, 1, 1>> }

\* query calls that vary the filter, sort and projection arguments
ClauseArgs ==
    {[NoArgs EXCEPT !.limit = 1, !.properties = f, !.bbox = b, !.sortby = sb,
                    !.select_properties = sp] :
        f \in FilterSpecs, b \in BoxSpecs, sb \in SortSpecs,
        sp \in {{}, {"name"}}}

QueryArgs == PagingArgs \cup SkipArgs \cup ClauseArgs
Identifiers == {0, 1}

\* ------------------------------------------------------ remote responses
FailedBodies ==
    [status : Statuses, body : {"garbage", "nostruct"}, n : {0},
     kind : {"good"}, limit : {0}, total : {0}]
Pages ==
    {pg \in [n : 0..MaxPage, kind : RowKinds] : pg.n = 0 => pg.kind = "good"}

\* answers to the first request of an invocation with arguments a
FirstResponses(a) ==
    FailedBodies \cup
    (IF a.resulttype = "hits"
     THEN [status : Statuses, body : {"json"}, n : {0}, kind : {"good"},
           limit : {a.limit}, total : 0..MaxTotal]
     ELSE {[status |-> s, body |-> "json", n |-> pg.n, kind |-> pg.kind,
            limit |-> l, total |-> 0] :
              s \in Statuses, pg \in Pages, l \in (0..MaxLimit) \cup {a.limit}})

\* answers to a request of the loop
LoopResponses ==
    FailedBodies \cup
    {[status |-> s, body |-> "json", n |-> pg.n, kind |-> pg.kind,
      limit |-> 0, total |-> 0] : s \in Statuses, pg \in Pages}

\* ------------------------------------------------------------- operations

\* a _load that stores the merged projection, as get_fields does
ProjectionAfterLoad_stored(props, a) == props \cup a.select_properties

\* self.properties after lines 168-170: the merged projection goes into the
\* request only, the attribute is read and not assigned
ProjectionAfterLoad(props, a) == props

\* _load up to line 189, called by op with arguments a
StartLoad(o, a) ==
    /\ op' = o
    /\ args' = a
    /\ UNCHANGED <<fields, numFeatures, discoveryCalls>>
    /\ properties' = ProjectionAfterLoad(properties, a)
    /\ limit' = a.limit /\ v' = << >> /\ step' = 0 /\ hits_' = 0 /\ lastPage' = -1
    /\ errStatusSeen' = FALSE /\ sawRows' = FALSE /\ firstTotal' = -1
    /\ failures' = {} /\ capsOK' = Caps
    /\ LET ob == _make_orderby(a.sortby)
       IN IF SortRequested(a) /\ ob.err # NoError
          THEN /\ pc' = "idle"
               /\ params' = NoParams
               /\ calls' = 0
               /\ outcome' = [kind |-> ob.err, cause |-> ob.err]
               /\ result' = NoResult
               /\ openSessions' = {}
          ELSE /\ pc' = "first"
               /\ params' = IF SortRequested(a)
                            THEN BaseParams(a, properties) @@ [sort |-> ob.clause]
                            ELSE BaseParams(a, properties)
               /\ calls' = 1
               /\ outcome' = NoOutcome
               /\ result' = NoResult
               /\ openSessions' = {"_load"}

\* query(...): lines 119-122
Query ==
    /\ pc = "idle"
    /\ \E a \in QueryArgs : StartLoad("query", a)

\* get(identifier): line 133
Get ==
    /\ pc = "idle"
    /\ \E i \in Identifiers : StartLoad("get", [NoArgs EXCEPT !.identifier = i])

\* is resp, the answer to the request req of an invocation with arguments a,
\* a failure: an error status, a body that is not the expected JSON, or rows
\* that make_feature cannot translate
AnswerFails(resp, req, a) ==
    \/ resp.status >= 400
    \/ resp.body # "json"
    \/ /\ a.resulttype # "hits"
       /\ TranslatePage(Page(req.offset, resp.n, resp.kind), a.skip_geometry).err # NoError

\* the state after the invocation moved to st on the response resp to the
\* request req
Becomes(st, req, resp) ==
    /\ pc' = st.pc /\ params' = st.params /\ limit' = st.limit /\ v' = st.v
    /\ step' = st.step /\ hits_' = st.hits_ /\ lastPage' = st.lastPage
    /\ calls' = st.calls /\ outcome' = st.outcome /\ result' = st.result
    /\ openSessions' = IF st.open THEN openSessions ELSE openSessions \ {"_load"}
    /\ errStatusSeen' = (errStatusSeen \/ resp.status >= 400)
    /\ sawRows' = (sawRows \/ (resp.body = "json" /\ resp.n > 0))
    /\ firstTotal' = IF pc = "first" /\ resp.body = "json" /\ st.outcome.kind \notin ErrorKinds
                     THEN resp.total
                     ELSE IF st.outcome.kind \in ErrorKinds THEN -1 ELSE firstTotal
    /\ failures' = IF AnswerFails(resp, req, args)
                   THEN failures \cup {IF pc = "first" THEN "first" ELSE "later"}
                   ELSE failures
    /\ capsOK' = {C \in capsOK :
                    /\ st.outcome.kind \notin ErrorKinds
                    /\ resp.status = 200 /\ resp.body = "json" /\ resp.kind = "good"
                    /\ resp.n = CappedPageSize(C, numFeatures, req.offset, req.limit)
                    /\ pc = "first" => resp.limit \in ReportedLimits(C, req.limit)}
    /\ UNCHANGED <<adapter, op, args>>

\* the first request is answered
FirstResponse ==
    /\ pc = "first"
    /\ \E resp \in FirstResponses(args) :
          Becomes(FirstResponseOf(Cur, op, args, numFeatures, resp), params, resp)

\* a request of the loop is answered
LoopResponse ==
    /\ pc = "loop"
    /\ \E resp \in LoopResponses :
          Becomes(LoopResponseOf(Cur, op, args, resp), params, resp)

Next ==
    \/ Construct
    \/ GetFieldsCall
    \/ Query
    \/ Get
    \/ FirstResponse
    \/ LoopResponse

Spec == Init /\ [][Next]_vars

\* query calls of the paging families only
PagingQuery ==
    /\ pc = "idle"
    /\ \E a \in PagingArgs \cup SkipArgs : StartLoad("query", a)

\* The operations that run the fetch loop, with a remote that answers every
\* request: the blocking call of lines 193 and 220 returns.
LoopNext ==
    \/ Construct
    \/ PagingQuery
    \/ Get
    \/ FirstResponse
    \/ LoopResponse

LoopSpec ==
    Init /\ [][LoopNext]_vars /\ WF_vars(FirstResponse) /\ WF_vars(LoopResponse)

\* ------------------------------------------------------------- properties
\* op returned normally and the model rests after it
Finished(o) == pc = "idle" /\ op = o /\ outcome.kind \notin ErrorKinds \cup {"none"}

\* query returned a collection built by the results branch
ResultsReturned ==
    Finished("query") /\ args.resulttype = "results"

\* C1: a results-mode query never returns more features than the caller's
\* limit: numberReturned <= limit.
C1_NumberReturnedWithinLimit ==
    ResultsReturned => result.numberReturned <= args.limit

\* C2: when the remote behaves as a store of numFeatures rows with a per-call
\* cap C below the caller's limit, and at least limit rows exist from the
\* offset on, the query returns at least limit features, whatever limit the
\* remote reported.
C2_CapOvercome ==
    (/\ ResultsReturned
     /\ \E C \in capsOK : C < args.limit
     /\ numFeatures >= args.offset + args.limit)
    => Len(result.features) >= args.limit

\* C3: the fetch loop terminates.  While it runs fewer than hits_ features
\* are held, hits_ being the smaller of the first answer's limit and the
\* cached total; every answer that keeps
\* it running adds at least one feature; a normal exit happens with hits_
\* features or more, or right after an empty page; and, the remote answering
\* every call, a running loop is eventually left.
C3_LoopTerminates ==
    /\ [](pc = "loop" => Len(v) < hits_ /\ hits_ = Min(limit, numFeatures))
    /\ [][pc = "loop" /\ pc' = "loop" => Len(v') > Len(v)]_vars
    /\ [](ResultsReturned => result.numberReturned >= hits_ \/ lastPage = 0)
    /\ ((pc = "loop") ~> (pc = "idle"))

\* C3 witness: the first page was empty (step 0) and the loop is at its
\* third call or later, some rows gathered
C3_Witness ==
    pc = "loop" /\ step = 0 /\ Len(v) > 0 /\ calls >= 3

\* C4: no feature's properties hold the id field or a coordinate field; they
\* are the row's other entries.
C4_ReservedFieldsExcluded ==
    \A i \in 1..Len(v) :
        /\ DOMAIN v[i].properties \cap {id_field, x_field, y_field} = {}
        /\ DOMAIN v[i].properties = {"name"}

\* C5: once query or get is over, normally or by an exception, the session
\* its _load opened is closed.
C5_SessionReleased ==
    pc = "idle" => "_load" \notin openSessions

\* C6: once a data call answered with an error status the operation is over
\* with a ProviderConnectionError: no parsing, no further call, no result.
C6_ErrorStatusIsConnectionError ==
    errStatusSeen => pc = "idle" /\ outcome.kind = "ProviderConnectionError"

\* C7: a body that does not parse makes the operation fail with a
\* ProviderQueryError wrapping the parse failure, in get_fields and in _load.
C7_ParseFailureIsQueryError ==
    outcome.cause = "JSONDecodeError" => outcome.kind = "ProviderQueryError"

\* C8: the discovery request is sent exactly once per adapter, by the
\* constructor, whatever it answered.
C8_DiscoveryOnce ==
    pc # "new" => discoveryCalls = 1

\* C9: a hits query returns no features, numberMatched equal to the total of
\* the first answer and no numberReturned; a results query returns
\* numberReturned equal to the number of features and no numberMatched.
C9_ResultShape ==
    Finished("query") =>
        IF args.resulttype = "hits"
        THEN /\ result.features = << >>
             /\ "numberMatched" \in DOMAIN result
             /\ result.numberMatched = firstTotal
             /\ "numberReturned" \notin DOMAIN result
        ELSE /\ "numberReturned" \in DOMAIN result
             /\ result.numberReturned = Len(result.features)
             /\ "numberMatched" \notin DOMAIN result

\* C9 witness: a hits query returned, the first answer's total being positive
\* and not the cached one
C9_Witness ==
    /\ Finished("query") /\ args.resulttype = "hits"
    /\ firstTotal > 0 /\ firstTotal # numFeatures

\* C10: a get whose remote calls returned no row ends with an error, never
\* with a feature value.
C10_GetMissingFails ==
    (pc = "idle" /\ op = "get" /\ calls >= 1 /\ ~sawRows)
    => outcome.kind \in ErrorKinds /\ result = NoResult

\* C10 witness: every call of a get was answered with an empty page,
\* a follow-up call included, and the pop of the empty list raised
C10_Witness ==
    /\ pc = "idle" /\ op = "get" /\ ~sawRows /\ ~errStatusSeen
    /\ calls >= 2 /\ lastPage = 0 /\ outcome.kind = "IndexError"

\* C11: a results-mode query with limit 0 sends no request after the first
\* and returns an empty feature list, whatever the first answer is.
C11_LimitZeroNoPaging ==
    (op = "query" /\ args.resulttype = "results" /\ args.limit = 0)
    => /\ calls <= 1
       /\ Finished("query") => result.features = << >>

\* C12: a get whose first answer holds the one matching row sends no further
\* request.
C12_GetNotPaginated ==
    (op = "get" /\ pc = "loop") => step # 1

\* C13: a request that carries a fields projection names the id field and
\* both coordinate fields in it.
C13_ProjectionHasReservedFields ==
    "fields" \in DOMAIN params => {id_field, x_field, y_field} \subseteq params.fields

\* the request parameters lines 162-186 build for the running invocation
FirstRequest ==
    IF SortRequested(args)
    THEN BaseParams(args, properties) @@ [sort |-> _make_orderby(args.sortby).clause]
    ELSE BaseParams(args, properties)

\* C14: the request in flight is the first request with its offset moved to
\* the caller's offset plus (follow-up calls so far) * step, where step is the
\* number of rows of the first page and stays what it is during the loop.
C14_CursorAdvancesByStep ==
    /\ []((pc \in {"first", "loop"} /\ calls < MaxCalls) =>
            params = [FirstRequest EXCEPT !.offset = args.offset + (calls - 1) * step])
    /\ [][pc = "first" /\ pc' = "loop" => step' = lastPage']_vars
    /\ [][pc = "loop" /\ pc' = "loop" => step' = step]_vars

\* C14 witness: the second follow-up request of a filtered, sorted query,
\* one row per page
C14_Witness ==
    /\ pc = "loop" /\ calls = 3 /\ step = 1
    /\ "filters" \in DOMAIN params /\ "sort" \in DOMAIN params
    /\ params.offset = args.offset + 2

\* C16: once a follow-up call of a query got a failing answer the query is
\* over with an error; no collection of the features gathered so far is
\* returned.
C16_LoopFailureFailsQuery ==
    (op = "query" /\ "later" \in failures)
    => pc = "idle" /\ outcome.kind \in ErrorKinds /\ result = NoResult

\* C17: a results-mode query all of whose calls were answered, without
\* failure, by an empty page returns a collection with no features and
\* numberReturned 0.
C17_BeyondEndIsEmpty ==
    (/\ pc = "idle" /\ op = "query" /\ args.resulttype = "results" /\ calls >= 1
     /\ failures = {} /\ ~sawRows)
    => /\ outcome.kind = "FeatureCollection"
       /\ result.features = << >>
       /\ result.numberReturned = 0

\* C17 witness: the offset is past the cached total, the first page was empty
\* and so was the page of the follow-up call
C17_Witness ==
    /\ pc = "idle" /\ op = "query" /\ args.resulttype = "results"
    /\ args.offset >= numFeatures /\ args.limit > 0 /\ numFeatures > 0
    /\ failures = {} /\ ~sawRows /\ calls = 2 /\ lastPage = 0
    /\ outcome.kind = "FeatureCollection"

\* C15: every request of a get carries as its filter exactly the equality of
\* the id field with the identifier, and neither a sort clause nor
\* include_total.
C15_IdentifierIsTheFilter ==
    (op = "get" /\ pc \in {"first", "loop"})
    => /\ "filters" \in DOMAIN params
       /\ params.filters = (id_field :> args.identifier)
       /\ "sort" \notin DOMAIN params
       /\ "include_total" \notin DOMAIN params

C19_ConsecutiveRows ==
    (ResultsReturned /\ capsOK # {})
    => \A i \in 1..Len(result.features) : result.features[i].id = args.offset + i

\* C19 witness: a capped remote served the result in three calls or more
C19_Witness ==
    /\ ResultsReturned /\ capsOK # {}
    /\ calls >= 3 /\ Len(result.features) >= 2

\* C20: a query with a sort list whose directions are all '+' or '-' sends,
\* in every request, one token per entry in the order of the list, '+' as
\* <property> asc and '-' as <property> desc; with any other direction symbol
\* it fails before a request is sent.
C20_OrderbyTokens ==
    (op = "query" /\ args.sortby # << >>)
    => IF \E i \in 1..Len(args.sortby) : args.sortby[i].order \notin {"+", "-"}
       THEN pc = "idle" /\ outcome.kind \in ErrorKinds /\ calls = 0
       ELSE pc \in {"first", "loop"}
            => /\ "sort" \in DOMAIN params
               /\ Len(params.sort) = Len(args.sortby)
               /\ \A i \in 1..Len(args.sortby) :
                    /\ args.sortby[i].order = "+"
                         => params.sort[i] = <<args.sortby[i].property, "asc">>
                    /\ args.sortby[i].order = "-"
                         => params.sort[i] = <<args.sortby[i].property, "desc">>

\* C20 witness: the request of a query sorted by name ascending, then x
\* descending
C20_Witness ==
    /\ op = "query" /\ pc = "first" /\ "sort" \in DOMAIN params
    /\ params.sort = << <<"name", "asc">>, <<"x", "desc">> >>

====
